---- MODULE Spec2Model ----
(***************************************************************************)
(* A model of thinkcellbuilder/thinkcellbuilder.py: the Template builder   *)
(* (transform_input and the add_* methods), and the Presentation that      *)
(* collects Templates and saves them as one JSON array.                    *)
(*                                                                         *)
(* Python values are records [type, val, year, month, day]: `type` is the  *)
(* value's class, `val` its literal (the text of a str, the repr of a      *)
(* number), and year/month/day the fields of a datetime or date.  A dict   *)
(* (a cell, a Slide Object) is a TLA+ function from its keys.              *)
(***************************************************************************)
EXTENDS Integers, Sequences, FiniteSets, TLC

VARIABLES
    PANDAS,            \* module flag: the pandas import succeeded (lines 10-15)
    libc_pads_year,    \* the platform's strftime pads %Y to four digits
    templates,         \* the Template objects: id -> [path, thinkcell_objects]
    slides,            \* Presentation.slides: a list of references (ids) to Templates
    call,              \* the last call made: its operation and arguments
    raised,            \* the exception the last call raised, or NoError
    warned,            \* the last call issued a UserWarning
    returned,          \* the value the last call returned
    outfile,           \* what json.dump wrote last, <<>> while nothing was written
    nwrites,           \* how many times a file was written
    ncalls,            \* how many calls were made
    len_when_added     \* history: id -> len(thinkcell_objects) when the Template
                       \* was last put in slides

vars == <<PANDAS, libc_pads_year, templates, slides, call, raised, warned,
          returned, outfile, nwrites, ncalls, len_when_added>>

----------------------------------------------------------------------------
(* Python values *)

PyVal(t, v) == [type |-> t, val |-> v, year |-> 0, month |-> 0, day |-> 0]
PyStr(s) == PyVal("str", s)
PyInt(s) == PyVal("int", s)
PyFloat(s) == PyVal("float", s)
PyBool(s) == PyVal("bool", s)
PyList(s) == PyVal("list", s)
None == PyVal("NoneType", "None")
PyDatetime(y, m, d) == [type |-> "datetime", val |-> "", year |-> y, month |-> m, day |-> d]
PyDate(y, m, d) == [type |-> "date", val |-> "", year |-> y, month |-> m, day |-> d]

\* The classes a value of each class is an instance of: bool is a subclass of
\* int, datetime a subclass of date (and not the other way round).
Bases(t) ==
    CASE t = "bool" -> {"bool", "int"}
      [] t = "datetime" -> {"datetime", "date"}
      [] OTHER -> {t}

isinstance(v, classes) == Bases(v.type) \cap classes # {}

\* str(v): the text of a str, the repr of a number, "None" for None.
str(v) == v.val

\* s.endswith(suffix)
endswith(s, suffix) ==
    /\ Len(s) >= Len(suffix)
    /\ SubSeq(s, Len(s) - Len(suffix) + 1, Len(s)) = suffix

----------------------------------------------------------------------------
(* Exceptions: the class raised and the raise statement it comes from *)

Exc(class, site) == [class |-> class, site |-> site]
NoError == Exc("", "")

\* What a function gives back: the exception it raised, or its return value.
Raise(class, site) == [exc |-> Exc(class, site), ret |-> None]
Return(v) == [exc |-> NoError, ret |-> v]

----------------------------------------------------------------------------
(* Template.transform_input *)

Pad2(n) == IF n < 10 THEN "0" \o ToString(n) ELSE ToString(n)

Pad4(n) ==
    IF n < 10 THEN "000" \o ToString(n)
    ELSE IF n < 100 THEN "00" \o ToString(n)
    ELSE IF n < 1000 THEN "0" \o ToString(n)
    ELSE ToString(n)

\* data_element.strftime("%Y-%m-%d").  %m and %d are two digits everywhere; %Y
\* is the C library's: four digits where it pads, the bare decimal year where
\* it does not (glibc, for years below 1000).
strftime_Ymd(dt) ==
    (IF libc_pads_year THEN Pad4(dt.year) ELSE ToString(dt.year))
        \o "-" \o Pad2(dt.month) \o "-" \o Pad2(dt.day)

EmptyDict == [k \in {} |-> ""]

transform_input(data_element, color) ==
    LET fill == IF color # None THEN ("fill" :> color.val) ELSE EmptyDict
    IN  IF isinstance(data_element, {"datetime"})
            THEN Return(("date" :> strftime_Ymd(data_element)) @@ fill)
        ELSE IF isinstance(data_element, {"str"})
            THEN Return(("string" :> data_element.val) @@ fill)
        ELSE IF isinstance(data_element, {"int", "float"})
            THEN Return(("number" :> data_element.val) @@ fill)
        ELSE Raise("ValueError", "transform_input")

----------------------------------------------------------------------------
(* Python lists and dicts *)

\* A list passed where None may be passed instead (fill=None).
ListOf(items) == [type |-> "list", items |-> items]

Min(a, b) == IF a <= b THEN a ELSE b

\* zip(a, b): the pairs up to the end of the shorter list.
zip(a, b) == [k \in 1..Min(Len(a), Len(b)) |-> <<a[k], b[k]>>]

\* [None for _ in data]
NoneForEach(data) == [k \in 1..Len(data) |-> None]

\* The first index of a list of results that raised, 0 when none did.
FirstRaise(rs) ==
    IF \E k \in 1..Len(rs) : rs[k].exc # NoError
        THEN CHOOSE k \in 1..Len(rs) :
                /\ rs[k].exc # NoError
                /\ \A h \in 1..(k - 1) : rs[h].exc = NoError
        ELSE 0

\* Evaluating a list of expressions in order: the first exception raised
\* ends the evaluation, otherwise the list of the values.
Collect(rs) ==
    IF FirstRaise(rs) # 0
        THEN [exc |-> rs[FirstRaise(rs)].exc, ret |-> None]
        ELSE Return([k \in 1..Len(rs) |-> rs[k].ret])

\* [self.transform_input(el, color) for el in data_list]
transform_row(data_list, color) ==
    Collect([j \in 1..Len(data_list) |-> transform_input(data_list[j], color)])

\* for data_list, color in zip(data, fill):
\*     spec["table"].append([self.transform_input(el, color) for el in data_list])
transform_rows(data, fill) ==
    LET pairs == zip(data, fill)
    IN  Collect([k \in 1..Len(pairs) |-> transform_row(pairs[k][1], pairs[k][2])])

\* The dict spec = {"name": ..., "table": ...}
SlideObject(name, table) == [name |-> name, table |-> table]

----------------------------------------------------------------------------
(* The add_* methods of Template, each as the function of its arguments:   *)
(* [exc, ret, warn] is the exception raised (NoError when none), the dict  *)
(* handed to thinkcell_objects.append, and whether warnings.warn ran.      *)

Outcome(r, warn) == [exc |-> r.exc, ret |-> r.ret, warn |-> warn]

textfield_spec(name, text) ==
    LET warn == ~isinstance(name, {"str"})
        field_text == transform_input(text, None)
    IN  IF field_text.exc # NoError
            THEN Outcome(field_text, warn)
            ELSE Outcome(Return(SlideObject(str(name), <<<<field_text.ret>>>>)), warn)

table_spec(name, data, fill) ==
    LET fill_ == IF fill = None THEN NoneForEach(data) ELSE fill.items
        rows == transform_rows(data, fill_)
    IN  IF rows.exc # NoError
            THEN Outcome(rows, FALSE)
            ELSE Outcome(Return(SlideObject(str(name), rows.ret)), FALSE)

\* A row-length check that lets rows longer than len(categories) + 1 through.
row_length_short_only(data_list, categories) == Len(data_list) < Len(categories) + 1

\* len(data_list) != len(categories) + 1
row_length_mismatch(data_list, categories) == Len(data_list) # Len(categories) + 1

\* fill is not None and len(fill) != len(data)
fill_length_mismatch(fill, data) == fill # None /\ Len(fill.items) # Len(data)

\* A table whose blank row comes after the data rows instead of after the header.
chart_table_blank_last(chart_categories, first_row_blank, rows) ==
    <<chart_categories>> \o rows \o (IF first_row_blank THEN <<<<>>>> ELSE <<>>)

\* A blank row written as [None] instead of [].
chart_table_null_row(chart_categories, first_row_blank, rows) ==
    <<chart_categories>> \o (IF first_row_blank THEN <<<<None>>>> ELSE <<>>) \o rows

\* spec["table"] = [chart_categories], then [] when first_row_blank, then the rows
chart_table(chart_categories, first_row_blank, rows) ==
    <<chart_categories>> \o (IF first_row_blank THEN <<<<>>>> ELSE <<>>) \o rows

chart_spec(name, categories, data, fill, first_row_blank) ==
    LET warn == ~isinstance(name, {"str"})
        fill_ == IF fill = None THEN NoneForEach(data) ELSE fill.items
        chart_categories ==
            Collect([k \in 1..Len(categories) |-> transform_input(categories[k], None)])
        rows == transform_rows(data, fill_)
    IN  IF \E k \in 1..Len(data) : row_length_mismatch(data[k], categories)
            THEN Outcome(Raise("ValueError", "add_chart.row_length"), warn)
        ELSE IF fill_length_mismatch(fill, data)
            THEN Outcome(Raise("ValueError", "add_chart.fill_length"), warn)
        ELSE IF chart_categories.exc # NoError
            THEN Outcome(chart_categories, warn)
        ELSE IF rows.exc # NoError
            THEN Outcome(rows, warn)
        ELSE Outcome(Return(SlideObject(str(name),
                        chart_table(<<None>> \o chart_categories.ret,
                                    first_row_blank, rows.ret))),
                     warn)

pie_chart_spec(name, data, fill) ==
    LET fill_ == IF fill = None THEN NoneForEach(data) ELSE fill.items
        rows == transform_rows(data, fill_)
    IN  IF \E k \in 1..Len(data) : Len(data[k]) # 2
            THEN Outcome(Raise("RuntimeError", "add_pie_chart.row_length"), FALSE)
        ELSE IF rows.exc # NoError
            THEN Outcome(rows, FALSE)
        ELSE Outcome(Return(SlideObject(str(name), <<<<>>>> \o rows.ret)), FALSE)

----------------------------------------------------------------------------
(* Dataframes: the column names in order and the rows of values, which is  *)
(* what dataframe.columns.to_list() and dataframe.values.tolist() give.    *)

DataFrame(columns, values) == [type |-> "DataFrame", columns |-> columns, values |-> values]

IsDataFrame(dataframe) == dataframe.type = "DataFrame"

Index(columns, c) == CHOOSE k \in 1..Len(columns) : columns[k] = c

Has(columns, c) == \E k \in 1..Len(columns) : columns[k] = c

\* A column synthesized with the text of its name instead of "".
SetColumn_with_name(df, c) ==
    IF Has(df.columns, c)
        THEN DataFrame(df.columns,
                [i \in 1..Len(df.values) |->
                    [df.values[i] EXCEPT ![Index(df.columns, c)] = PyStr(c)]])
        ELSE DataFrame(Append(df.columns, c),
                [i \in 1..Len(df.values) |-> Append(df.values[i], PyStr(c))])

\* df[c] = "": the column c set to "" in every row, appended when it is new.
SetColumn(df, c) ==
    IF Has(df.columns, c)
        THEN DataFrame(df.columns,
                [i \in 1..Len(df.values) |->
                    [df.values[i] EXCEPT ![Index(df.columns, c)] = PyStr("")]])
        ELSE DataFrame(Append(df.columns, c),
                [i \in 1..Len(df.values) |-> Append(df.values[i], PyStr(""))])

\* df[[c1, ..., cn]]: the columns named, in the order named.
Project(df, selection) ==
    DataFrame(selection,
        [i \in 1..Len(df.values) |->
            [j \in 1..Len(selection) |-> df.values[i][Index(df.columns, selection[j])]]])

chart_from_dataframe_spec(name, dataframe, fill, first_row_blank) ==
    IF ~PANDAS
        THEN Outcome(Raise("ImportError", "add_chart_from_dataframe"), FALSE)
    ELSE IF ~IsDataFrame(dataframe)
        THEN Outcome(Raise("DataFrameError", "add_chart_from_dataframe.invalid"), FALSE)
    ELSE LET categories == [k \in 1..(Len(dataframe.columns) - 1) |->
                                PyStr(dataframe.columns[k + 1])]
             data == dataframe.values
         IN  IF ~(Len(categories) >= 1 /\ Len(data) # 0)
                THEN Outcome(Raise("DataFrameError", "add_chart_from_dataframe.empty"),
                             FALSE)
                ELSE chart_spec(name, categories, data, fill, first_row_blank)

scatter_from_dataframe_spec(name, dataframe, x, y, label, size, group, fill) ==
    IF ~PANDAS
        THEN Outcome(Raise("ImportError", "add_scatter_from_dataframe"), FALSE)
    ELSE IF dataframe = None
        \* None has no copy()
        THEN Outcome(Raise("AttributeError", "add_scatter_from_dataframe.copy"), FALSE)
    ELSE IF ~IsDataFrame(dataframe)
        \* a list copies, and cannot be indexed by a column name or a list of them
        THEN Outcome(Raise("TypeError", "add_scatter_from_dataframe.index"), FALSE)
    ELSE LET df1 == IF label = None THEN SetColumn(dataframe, str(label)) ELSE dataframe
             df2 == IF size = None THEN SetColumn(df1, str(size)) ELSE df1
             df3 == IF group = None THEN SetColumn(df2, str(group)) ELSE df2
             selection == <<str(label), x, y, str(size), str(group)>>
         IN  IF \E j \in 1..Len(selection) : ~Has(df3.columns, selection[j])
                THEN Outcome(Raise("KeyError", "add_scatter_from_dataframe.columns"),
                             FALSE)
                ELSE chart_from_dataframe_spec(name, Project(df3, selection), fill, FALSE)

----------------------------------------------------------------------------
(* Bounds, and the arguments the calls are made with *)

MaxRows == 2        \* data has at most MaxRows rows
MaxCols == 3        \* a row has at most MaxCols elements
MaxPrior == 1       \* objects a Template already holds when a call is examined

NoCall == [op |-> "none"]

Names == {PyStr("Cool Name bro"), PyInt("234")}

\* The value at row i, column j of a grid: rows differ from one another, and
\* strings, integers, datetimes and floats all occur.
ValueAt(i, j) ==
    LET k == (2 * (i - 1) + (j - 1)) % 4
    IN  CASE k = 0 -> PyStr("Alpha")
          [] k = 1 -> PyInt("3")
          [] k = 2 -> PyDatetime(2012, 9, 16)
          [] OTHER -> PyFloat("2.5")

BadValue == PyList("[3, 4]")

\* The grid of the given row lengths, with a value of unsupported type at
\* position bad (nowhere when bad is no position of the grid).
Grid(shape, bad) ==
    [i \in 1..Len(shape) |->
        [j \in 1..shape[i] |-> IF <<i, j>> = bad THEN BadValue ELSE ValueAt(i, j)]]

Shapes == UNION {[1..n -> 0..MaxCols] : n \in 0..MaxRows}

Grids == {Grid(shape, bad) : shape \in Shapes, bad \in (0..MaxRows) \X (0..MaxCols)}

Colour(k) == PyStr("#" \o ToString(k) \o ToString(k) \o ToString(k))

\* fill: None, or a list of 0..MaxRows+1 colours.
Fills == {None} \cup {ListOf([k \in 1..n |-> Colour(k)]) : n \in 0..(MaxRows + 1)}

Category(k) == IF k % 2 = 1 THEN PyStr("bravo") ELSE PyInt("2020")

\* categories: 0..MaxCols-1 labels, one of them possibly of unsupported type.
CategoryLists ==
    {[k \in 1..n |-> IF k = bad THEN BadValue ELSE Category(k)] :
        n \in 0..(MaxCols - 1), bad \in 0..(MaxCols - 1)}

ColumnName(k) ==
    CASE k = 1 -> "Company" [] k = 2 -> "Employees" [] k = 3 -> "Revenue"
      [] OTHER -> "Column " \o ToString(k)

\* dataframe: a frame of 0..MaxCols columns and 0..MaxRows rows, one value
\* possibly of unsupported type; or no frame at all (None, a list).
DataFrames ==
    {DataFrame([k \in 1..nc |-> ColumnName(k)], Grid([i \in 1..nr |-> nc], bad)) :
        nc \in 0..MaxCols, nr \in 0..MaxRows, bad \in (0..MaxRows) \X (0..MaxCols)}
    \cup {None, ListOf(<<>>)}

\* The column arguments of add_scatter_from_dataframe: x and y name columns
\* (one of them a column no frame has), label, size and group may be None.
XColumns == {"Employees"}
YColumns == {"Revenue", "Missing"}
LabelColumns == {None, PyStr("Company")}
SizeColumns == {None, PyStr("Employees")}
GroupColumns == {None, PyStr("Revenue")}

Texts == {PyStr("A great slide"), PyInt("3"), PyDatetime(2012, 9, 16), BadValue, None}

----------------------------------------------------------------------------
(* State *)

Template(path) == [path |-> path, thinkcell_objects |-> <<>>]

\* An append made before the rows are built: a call that raises leaves the
\* object it had begun in the list.
append_spec_early(thinkcell_objects, r) ==
    IF r.exc = NoError
        THEN Append(thinkcell_objects, r.ret)
        ELSE Append(thinkcell_objects, SlideObject("", <<>>))

\* An insert at the head of the list instead of an append at its end.
prepend_spec(thinkcell_objects, r) ==
    IF r.exc = NoError THEN <<r.ret>> \o thinkcell_objects ELSE thinkcell_objects

\* self.thinkcell_objects.append(spec), reached when nothing raised before it.
append_spec(thinkcell_objects, r) ==
    IF r.exc = NoError THEN Append(thinkcell_objects, r.ret) ELSE thinkcell_objects

\* What every add_* call does to the state, given the outcome of its body.
AddTo(self, r) ==
    /\ templates' = [templates EXCEPT
            ![self].thinkcell_objects = append_spec(@, r)]
    /\ raised' = r.exc
    /\ warned' = r.warn
    /\ returned' = None
    /\ ncalls' = ncalls + 1
    /\ UNCHANGED <<PANDAS, libc_pads_year, slides, outfile, nwrites, len_when_added>>

add_textfield(self, name, text) ==
    /\ call' = [op |-> "add_textfield", self |-> self, name |-> name, text |-> text]
    /\ AddTo(self, textfield_spec(name, text))

add_table(self, name, data, fill) ==
    /\ call' = [op |-> "add_table", self |-> self, name |-> name, data |-> data,
                fill |-> fill]
    /\ AddTo(self, table_spec(name, data, fill))

add_chart(self, name, categories, data, fill, first_row_blank) ==
    /\ call' = [op |-> "add_chart", self |-> self, name |-> name,
                categories |-> categories, data |-> data, fill |-> fill,
                first_row_blank |-> first_row_blank]
    /\ AddTo(self, chart_spec(name, categories, data, fill, first_row_blank))

add_pie_chart(self, name, data, fill) ==
    /\ call' = [op |-> "add_pie_chart", self |-> self, name |-> name, data |-> data,
                fill |-> fill]
    /\ AddTo(self, pie_chart_spec(name, data, fill))

add_chart_from_dataframe(self, name, dataframe, fill, first_row_blank) ==
    /\ call' = [op |-> "add_chart_from_dataframe", self |-> self, name |-> name,
                dataframe |-> dataframe, fill |-> fill,
                first_row_blank |-> first_row_blank]
    /\ AddTo(self, chart_from_dataframe_spec(name, dataframe, fill, first_row_blank))

add_scatter_from_dataframe(self, name, dataframe, x, y, label, size, group, fill) ==
    /\ call' = [op |-> "add_scatter_from_dataframe", self |-> self, name |-> name,
                dataframe |-> dataframe, x |-> x, y |-> y, label |-> label,
                size |-> size, group |-> group, fill |-> fill]
    /\ AddTo(self, scatter_from_dataframe_spec(name, dataframe, x, y, label, size,
                                               group, fill))

----------------------------------------------------------------------------
(* One call examined on one Template.  The Template is as constructed, or  *)
(* already holds the text fields that earlier add_textfield calls put      *)
(* there; the call is made with every argument of the bounded sets.        *)

\* thinkcell_objects after add_textfield("Title 1", "A great slide"),
\* add_textfield("Title 2", "A great slide"), ...: n calls.
PriorObjects(n) ==
    [k \in 1..n |->
        textfield_spec(PyStr("Title " \o ToString(k)), PyStr("A great slide")).ret]

\* No date before the year 1000 is formatted here (SpecTransform does that),
\* so what strftime does with such a year plays no part.
InitBuilder ==
    /\ PANDAS \in BOOLEAN
    /\ libc_pads_year = FALSE
    /\ \E n \in 0..MaxPrior :
        templates = [t \in {1} |->
            [Template(PyStr("example.pptx")) EXCEPT
                !.thinkcell_objects = PriorObjects(n)]]
    /\ slides = <<>>
    /\ call = NoCall
    /\ raised = NoError
    /\ warned = FALSE
    /\ returned = None
    /\ outfile = <<>>
    /\ nwrites = 0
    /\ ncalls = 0
    /\ len_when_added = [t \in {1} |-> 0]

NextTable ==
    \/ /\ call = NoCall
       /\ \E name \in Names, text \in Texts : add_textfield(1, name, text)
    \/ /\ call = NoCall
       /\ \E name \in Names, data \in Grids, fill \in Fills :
            add_table(1, name, data, fill)
    \/ /\ call = NoCall
       /\ \E name \in Names, data \in Grids, fill \in Fills :
            add_pie_chart(1, name, data, fill)

SpecTable == InitBuilder /\ [][NextTable]_vars

NextChart ==
    /\ call = NoCall
    /\ \E name \in Names, categories \in CategoryLists, data \in Grids,
          fill \in Fills, first_row_blank \in BOOLEAN :
            add_chart(1, name, categories, data, fill, first_row_blank)

SpecChart == InitBuilder /\ [][NextChart]_vars

NextFrame ==
    \/ /\ call = NoCall
       /\ \E name \in Names, dataframe \in DataFrames, fill \in Fills,
             first_row_blank \in BOOLEAN :
            add_chart_from_dataframe(1, name, dataframe, fill, first_row_blank)
    \/ /\ call = NoCall
       /\ \E name \in Names, dataframe \in DataFrames, x \in XColumns,
             y \in YColumns, label \in LabelColumns, size \in SizeColumns,
             group \in GroupColumns, fill \in Fills :
            add_scatter_from_dataframe(1, name, dataframe, x, y, label, size, group,
                                       fill)

SpecFrame == InitBuilder /\ [][NextFrame]_vars

\* Every add_* method.
NextBuilder == NextTable \/ NextChart \/ NextFrame

SpecBuilder == InitBuilder /\ [][NextBuilder]_vars

----------------------------------------------------------------------------
(* transform_input on its own: one call with every value and colour *)

\* Raw values of every class transform_input tells apart, and of some it
\* rejects; the datetimes include years of fewer than four digits.
Years == {5, 999, 1000, 2012}
Months == {1, 9, 12}
Days == {2, 16, 30}

RawValues ==
    {PyDatetime(y, m, d) : y \in Years, m \in Months, d \in Days}
    \cup {PyStr("daf"), PyStr(""), PyStr("2012-09-16"), PyInt("3"), PyInt("-7"),
          PyFloat("2.0"), PyFloat("nan"), PyBool("True"),
          PyList("[3, 4]"), None, PyDate(2012, 9, 16), PyVal("dict", "{}")}

Colors == {None, PyStr("#70AD47"), PyStr("rgb(1,2,3)"), PyStr("")}

call_transform_input(data_element, color) ==
    LET r == transform_input(data_element, color)
    IN  /\ call' = [op |-> "transform_input", data_element |-> data_element,
                    color |-> color]
        /\ raised' = r.exc
        /\ returned' = r.ret
        /\ warned' = FALSE
        /\ ncalls' = ncalls + 1
        /\ UNCHANGED <<PANDAS, libc_pads_year, templates, slides, outfile, nwrites,
                       len_when_added>>

InitTransform ==
    /\ PANDAS = TRUE
    /\ libc_pads_year \in BOOLEAN
    /\ templates = <<>>
    /\ slides = <<>>
    /\ call = NoCall
    /\ raised = NoError
    /\ warned = FALSE
    /\ returned = None
    /\ outfile = <<>>
    /\ nwrites = 0
    /\ ncalls = 0
    /\ len_when_added = <<>>

NextTransform ==
    /\ call = NoCall
    /\ \E data_element \in RawValues, color \in Colors :
        call_transform_input(data_element, color)

SpecTransform == InitTransform /\ [][NextTransform]_vars

----------------------------------------------------------------------------
(* Template.serialize and Presentation *)

\* A Presentation that kept, for each Template, the objects it held when it
\* was put in slides (a copy) instead of the Template itself.
serialize_when_added(self) ==
    [template |-> templates[self].path,
     data |-> SubSeq(templates[self].thinkcell_objects, 1, len_when_added[self])]

\* Template.serialize: the Template's path and its list of objects, as they
\* are when serialize is called.
serialize(self) ==
    [template |-> templates[self].path, data |-> templates[self].thinkcell_objects]

\* A call of serialize by the code that holds the Template.
call_serialize(self) ==
    /\ call' = [op |-> "serialize", self |-> self]
    /\ returned' = serialize(self)
    /\ raised' = NoError
    /\ warned' = FALSE
    /\ ncalls' = ncalls + 1
    /\ UNCHANGED <<PANDAS, libc_pads_year, templates, slides, outfile, nwrites,
                   len_when_added>>

\* A check of the type alone: any str passes.
_verify_template_any_str(template_name) ==
    IF ~isinstance(template_name, {"str"})
        THEN Raise("TypeError", "_verify_template.not_str")
        ELSE Return(template_name)

\* Presentation._verify_template
_verify_template(template_name) ==
    IF ~isinstance(template_name, {"str"})
        THEN Raise("TypeError", "_verify_template.not_str")
    ELSE IF ~endswith(template_name.val, ".pptx")
        THEN Raise("TypeError", "_verify_template.not_pptx")
    ELSE Return(template_name)

\* template.path = path, by the code that holds the Template: the dataclass is
\* not frozen and nothing checks the value assigned.
set_path(self, path) ==
    /\ call' = [op |-> "set_path", self |-> self, path |-> path]
    /\ templates' = [templates EXCEPT ![self].path = path]
    /\ raised' = NoError
    /\ returned' = None
    /\ warned' = FALSE
    /\ ncalls' = ncalls + 1
    /\ UNCHANGED <<PANDAS, libc_pads_year, slides, outfile, nwrites, len_when_added>>

\* json.dump: None is written null, a list an array, a dict an object, and a
\* str or a number as its literal.
json_literal(v) ==
    CASE v = None -> [json |-> "null"]
      [] isinstance(v, {"str"}) -> [json |-> "string", text |-> v.val]
      [] isinstance(v, {"int", "float"}) -> [json |-> "number", text |-> v.val]

json_row(row) ==
    [j \in 1..Len(row) |-> IF row[j] = None THEN json_literal(None) ELSE row[j]]

json_object(spec) ==
    [name |-> spec.name, table |-> [i \in 1..Len(spec.table) |-> json_row(spec.table[i])]]

json_dump(to_dump) ==
    [k \in 1..Len(to_dump) |->
        [template |-> json_literal(to_dump[k].template),
         data |-> [h \in 1..Len(to_dump[k].data) |-> json_object(to_dump[k].data[h])]]]

\* self.slides.append(template): slides holds the Template itself, not a copy
append_template(slides_, template) == Append(slides_, template)

add_template(template) ==
    LET r == _verify_template(templates[template].path)
    IN  /\ call' = [op |-> "add_template", template |-> template]
        /\ raised' = r.exc
        /\ slides' = IF r.exc = NoError THEN append_template(slides, template) ELSE slides
        /\ len_when_added' =
            IF r.exc = NoError
                THEN [len_when_added EXCEPT
                        ![template] = Len(templates[template].thinkcell_objects)]
                ELSE len_when_added
        /\ returned' = None
        /\ warned' = FALSE
        /\ ncalls' = ncalls + 1
        /\ UNCHANGED <<PANDAS, libc_pads_year, templates, outfile, nwrites>>

\* The slides serialized last to first.
to_dump_reversed(slides_) ==
    [k \in 1..Len(slides_) |-> serialize(slides_[Len(slides_) + 1 - k])]

\* to_dump = [i.serialize() for i in self.slides]
to_dump_of(slides_) == [k \in 1..Len(slides_) |-> serialize(slides_[k])]

\* A save that opens the file before it checks anything: a rejected save
\* leaves an empty file behind.
save_ppttc_open_first(filename) ==
    LET bad_name == ~endswith(str(filename), ".ppttc")
        no_slides == slides = <<>>
        ok == ~bad_name /\ ~no_slides
    IN  /\ call' = [op |-> "save_ppttc", filename |-> filename]
        /\ raised' = IF bad_name THEN Exc("ValueError", "save_ppttc.filename")
                     ELSE IF no_slides THEN Exc("ValueError", "save_ppttc.no_slides")
                     ELSE NoError
        /\ outfile' = IF ok THEN json_dump(to_dump_of(slides)) ELSE <<>>
        /\ nwrites' = nwrites + 1
        /\ returned' = IF ok THEN PyBool("True") ELSE None
        /\ warned' = FALSE
        /\ ncalls' = ncalls + 1
        /\ UNCHANGED <<PANDAS, libc_pads_year, templates, slides, len_when_added>>

\* A save that refuses a Presentation already written once.
save_ppttc_once(filename) ==
    LET bad_name == ~endswith(str(filename), ".ppttc")
        no_slides == slides = <<>>
        ok == ~bad_name /\ ~no_slides /\ nwrites = 0
    IN  /\ call' = [op |-> "save_ppttc", filename |-> filename]
        /\ raised' = IF bad_name THEN Exc("ValueError", "save_ppttc.filename")
                     ELSE IF no_slides THEN Exc("ValueError", "save_ppttc.no_slides")
                     ELSE IF nwrites # 0 THEN Exc("ValueError", "save_ppttc.saved")
                     ELSE NoError
        /\ outfile' = IF ok THEN json_dump(to_dump_of(slides)) ELSE outfile
        /\ nwrites' = IF ok THEN nwrites + 1 ELSE nwrites
        /\ returned' = IF ok THEN PyBool("True") ELSE None
        /\ warned' = FALSE
        /\ ncalls' = ncalls + 1
        /\ UNCHANGED <<PANDAS, libc_pads_year, templates, slides, len_when_added>>

save_ppttc(filename) ==
    LET bad_name == ~endswith(str(filename), ".ppttc")
        no_slides == slides = <<>>
        ok == ~bad_name /\ ~no_slides
    IN  /\ call' = [op |-> "save_ppttc", filename |-> filename]
        /\ raised' = IF bad_name THEN Exc("ValueError", "save_ppttc.filename")
                     ELSE IF no_slides THEN Exc("ValueError", "save_ppttc.no_slides")
                     ELSE NoError
        /\ outfile' = IF ok THEN json_dump(to_dump_of(slides)) ELSE outfile
        /\ nwrites' = IF ok THEN nwrites + 1 ELSE nwrites
        /\ returned' = IF ok THEN PyBool("True") ELSE None
        /\ warned' = FALSE
        /\ ncalls' = ncalls + 1
        /\ UNCHANGED <<PANDAS, libc_pads_year, templates, slides, len_when_added>>

----------------------------------------------------------------------------
(* A Presentation and two Templates: any calls, in any order *)

MaxCalls == 3       \* calls made in one run

TemplateIds == {1, 2}

Paths == {PyStr("example.pptx"), PyStr("example.PPTX"), PyInt("5")}

Filenames == {PyStr("test.ppttc"), PyStr("word.docx"), PyInt("3")}

\* Presentation(), Presentation([template 1]): the slides the constructor is given
InitialSlides == {<<>>, <<1>>}

\* pandas is installed and no date before the year 1000 is formatted here:
\* SpecBuilder and SpecTransform cover the other cases.
Init ==
    /\ PANDAS = TRUE
    /\ libc_pads_year = FALSE
    /\ templates \in [TemplateIds -> {Template(p) : p \in Paths}]
    /\ slides \in InitialSlides
    /\ call = NoCall
    /\ raised = NoError
    /\ warned = FALSE
    /\ returned = None
    /\ outfile = <<>>
    /\ nwrites = 0
    /\ ncalls = 0
    /\ len_when_added = [t \in TemplateIds |-> 0]

\* The arguments the add_* methods are called with here.
SomeTexts == {PyStr("A great slide"), BadValue}
SomeData == Grid(<<2, 2>>, <<0, 0>>)
SomeFrame == DataFrame(<<"Company", "Employees", "Revenue">>, Grid(<<3>>, <<0, 0>>))

Next ==
    \/ /\ ncalls < MaxCalls
       /\ \E self \in TemplateIds, text \in SomeTexts :
            add_textfield(self, PyStr("Title"), text)
    \/ /\ ncalls < MaxCalls
       /\ \E self \in TemplateIds : add_table(self, PyStr("Table"), SomeData, None)
    \/ /\ ncalls < MaxCalls
       /\ \E self \in TemplateIds :
            add_chart(self, PyInt("234"), <<PyStr("bravo")>>, SomeData, None, TRUE)
    \/ /\ ncalls < MaxCalls
       /\ add_pie_chart(1, PyStr("tasty pie"), SomeData, None)
    \/ /\ ncalls < MaxCalls
       /\ add_chart_from_dataframe(1, PyStr("Cool Chart"), SomeFrame, None, TRUE)
    \/ /\ ncalls < MaxCalls
       /\ add_scatter_from_dataframe(1, PyStr("Scatter Batter"), SomeFrame,
                                     "Employees", "Revenue", PyStr("Company"),
                                     None, None, None)
    \/ /\ ncalls < MaxCalls
       /\ \E self \in TemplateIds, path \in Paths : set_path(self, path)
    \/ /\ ncalls < MaxCalls
       /\ \E self \in TemplateIds : call_serialize(self)
    \/ /\ ncalls < MaxCalls
       /\ \E template \in TemplateIds : add_template(template)
    \/ /\ ncalls < MaxCalls
       /\ \E filename \in Filenames : save_ppttc(filename)

Spec == Init /\ [][Next]_vars

----------------------------------------------------------------------------
(* What the claims speak of *)

AddOps == {"add_textfield", "add_table", "add_chart", "add_pie_chart",
           "add_chart_from_dataframe", "add_scatter_from_dataframe"}

\* The errors raised for a row, category or fill count that does not fit.
IsShapeError(e) ==
    e.site \in {"add_chart.row_length", "add_chart.fill_length",
                "add_pie_chart.row_length"}

\* The object the last call appended, when it appended one.
LastObject ==
    templates[call.self].thinkcell_objects[Len(templates[call.self].thinkcell_objects)]

TagOf(v) ==
    CASE v.type = "datetime" -> "date"
      [] v.type = "str" -> "string"
      [] v.type \in {"int", "float", "bool"} -> "number"

IsoDate(v) == Pad4(v.year) \o "-" \o Pad2(v.month) \o "-" \o Pad2(v.day)

\* cell is the Cell of raw value v with the colour given (None: no fill).
CellIs(cell, v, colour) ==
    /\ DOMAIN cell = {TagOf(v)} \cup (IF colour # None THEN {"fill"} ELSE {})
    /\ cell[TagOf(v)] = (IF v.type = "datetime" THEN IsoDate(v) ELSE v.val)
    /\ colour # None => cell.fill = colour.val

\* The colour of row i under fill: fill's i-th element, None when fill is
\* None or has no i-th element.
ColourOfRow(fill, i) ==
    IF fill = None \/ i > Len(fill.items) THEN None ELSE fill.items[i]

----------------------------------------------------------------------------
(* C1: an add_* call that raises, for a count that does not fit or for a   *)
(* value of unsupported type anywhere in its input, leaves the Template's  *)
(* list of objects as it was before the call.                              *)
C1_FailedAddKeepsObjects ==
    [][(call'.op \in AddOps /\ raised' # NoError) => templates' = templates]_vars

\* add_chart raised on the last value of its second row, its first row
\* being fine, on a Template that held an object already.
C1_Witness ==
    /\ call.op = "add_chart"
    /\ raised = Exc("ValueError", "transform_input")
    /\ Len(call.data) = 2
    /\ Len(call.data[2]) = 2
    /\ call.data[2][2] = BadValue
    /\ Len(templates[1].thinkcell_objects) = 1

(* C2: a fill list given to add_chart, add_table or add_pie_chart whose     *)
(* length is not the number of data rows is rejected with a shape error.   *)
C2_FillLengthRejected ==
    (/\ call.op \in {"add_chart", "add_table", "add_pie_chart"}
     /\ call.fill # None
     /\ Len(call.fill.items) # Len(call.data))
        => IsShapeError(raised)

(* C3: a successful add_table appends an object whose table has one row    *)
(* per input row, in order, each of one cell per input element, every cell *)
(* of row i with row i's colour, or with no fill when fill is None or has  *)
(* no element for that row.                                                *)
C3_TableRowPerInputRow ==
    (call.op = "add_table" /\ raised = NoError) =>
        /\ LastObject.name = str(call.name)
        /\ Len(LastObject.table) = Len(call.data)
        /\ \A i \in 1..Min(Len(LastObject.table), Len(call.data)) :
            /\ Len(LastObject.table[i]) = Len(call.data[i])
            /\ \A j \in 1..Min(Len(LastObject.table[i]), Len(call.data[i])) :
                CellIs(LastObject.table[i][j], call.data[i][j],
                       ColourOfRow(call.fill, i))

(* C4: add_chart raises the shape error exactly when some data row's       *)
(* length is not len(categories)+1 or a given fill's length is not the      *)
(* number of data rows.                                                    *)
C4_ChartShapeErrorIff ==
    call.op = "add_chart" =>
        ((raised.class = "ValueError"
            /\ raised.site \in {"add_chart.row_length", "add_chart.fill_length"})
         <=> (\/ \E i \in 1..Len(call.data) :
                    Len(call.data[i]) # Len(call.categories) + 1
              \/ (call.fill # None /\ Len(call.fill.items) # Len(call.data))))

\* Two rows of the right length and a fill of three colours: the fill
\* alone is what add_chart raised for.
C4_Witness ==
    /\ call.op = "add_chart"
    /\ Len(call.data) = 2
    /\ \A i \in 1..2 : Len(call.data[i]) = Len(call.categories) + 1
    /\ call.fill # None
    /\ Len(call.fill.items) = 3
    /\ raised = Exc("ValueError", "add_chart.fill_length")

(* C5: a successful add_chart with n categories, m data rows and           *)
(* first_row_blank appends an object whose table is the header             *)
(* [null, cell of each category without fill], then one empty row exactly  *)
(* when first_row_blank, then the m data rows in order, each of n+1 cells   *)
(* with the row's colour (no fill when fill is None): 1 + (1 or 0) + m     *)
(* rows.                                                                   *)
C5_ChartTable ==
    (call.op = "add_chart" /\ raised = NoError) =>
        LET table == LastObject.table
            n == Len(call.categories)
            m == Len(call.data)
            b == IF call.first_row_blank THEN 1 ELSE 0
        IN  /\ Len(table) = 1 + b + m
            /\ Len(table[1]) = n + 1
            /\ table[1][1] = None
            /\ \A k \in 1..n : CellIs(table[1][k + 1], call.categories[k], None)
            /\ call.first_row_blank => table[2] = <<>>
            /\ \A i \in 1..m :
                /\ Len(table[1 + b + i]) = n + 1
                /\ \A j \in 1..(n + 1) :
                    CellIs(table[1 + b + i][j], call.data[i][j],
                           ColourOfRow(call.fill, i))

\* add_chart succeeded with two categories, two rows, a fill and the blank row.
C5_Witness ==
    /\ call.op = "add_chart"
    /\ raised = NoError
    /\ Len(call.categories) = 2
    /\ Len(call.data) = 2
    /\ call.fill # None
    /\ call.first_row_blank
    /\ Len(LastObject.table) = 4

(* C6: transform_input gives a datetime the one tag date with its          *)
(* YYYY-MM-DD string, a str the one tag string, an int or float the one    *)
(* tag number, a fill exactly when a colour is given, and raises for a     *)
(* value of any other type.                                                *)
C6_TransformClassifies ==
    call.op = "transform_input" =>
        IF call.data_element.type \in {"datetime", "str", "int", "float", "bool"}
            THEN /\ raised = NoError
                 /\ CellIs(returned, call.data_element, call.color)
            ELSE /\ raised.class = "ValueError"
                 /\ returned = None

ValidTemplatePath(path) == path.type = "str" /\ endswith(path.val, ".pptx")

\* What json.dump writes for a table element: null for None, the cell otherwise.
Written(element) == IF element = None THEN [json |-> "null"] ELSE element

\* entry is what is written for a Template of the given path and objects.
EntryIs(entry, path, objects) ==
    /\ entry.template.text = path.val
    /\ entry.template.json = (IF path.type = "str" THEN "string" ELSE "number")
    /\ Len(entry.data) = Len(objects)
    /\ \A h \in 1..Min(Len(entry.data), Len(objects)) :
        /\ entry.data[h].name = objects[h].name
        /\ Len(entry.data[h].table) = Len(objects[h].table)
        /\ \A i \in 1..Len(objects[h].table) :
            /\ Len(entry.data[h].table[i]) = Len(objects[h].table[i])
            /\ \A j \in 1..Len(objects[h].table[i]) :
                entry.data[h].table[i][j] = Written(objects[h].table[i][j])

(* C7: every Template in the Presentation's slides has a path that is a    *)
(* str ending in ".pptx", in every state reached by constructing the       *)
(* Presentation (with or without initial slides) and calling add_template. *)
C7_SlidesHaveValidPaths ==
    \A k \in 1..Len(slides) : ValidTemplatePath(templates[slides[k]].path)

(* C8: add_template of a Template whose path is not a str ending in        *)
(* ".pptx" raises TypeError and leaves slides as it was; of a Template     *)
(* with a valid path it appends that Template to slides and changes        *)
(* nothing else.                                                           *)
C8_AddTemplate ==
    [][call'.op = "add_template" =>
        /\ templates' = templates
        /\ outfile' = outfile
        /\ nwrites' = nwrites
        /\ IF ValidTemplatePath(templates[call'.template].path)
            THEN raised' = NoError /\ slides' = Append(slides, call'.template)
            ELSE raised'.class = "TypeError" /\ slides' = slides]_vars

\* add_template raised for "example.PPTX" and slides still holds the one
\* Template it held.
C8_Witness ==
    /\ call.op = "add_template"
    /\ templates[call.template].path = PyStr("example.PPTX")
    /\ raised.class = "TypeError"
    /\ Len(slides) = 1
    /\ slides[1] # call.template

(* C9: save_ppttc raises ValueError for a filename not ending in ".ppttc"  *)
(* and for a Presentation without slides; otherwise it returns True and    *)
(* writes an array with one entry per Template of slides, in the order of  *)
(* slides, entry k holding the k-th Template's path and objects.           *)
C9_SaveWritesSlidesInOrder ==
    call.op = "save_ppttc" =>
        IF ~endswith(call.filename.val, ".ppttc") \/ slides = <<>>
            THEN raised.class = "ValueError" /\ returned = None
            ELSE /\ raised = NoError
                 /\ returned = PyBool("True")
                 /\ Len(outfile) = Len(slides)
                 /\ \A k \in 1..Min(Len(outfile), Len(slides)) :
                        EntryIs(outfile[k], templates[slides[k]].path,
                                templates[slides[k]].thinkcell_objects)

\* A save of two Templates that differ.
C9_Witness ==
    /\ call.op = "save_ppttc"
    /\ raised = NoError
    /\ Len(slides) = 2
    /\ templates[slides[1]] # templates[slides[2]]
    /\ Len(outfile) = 2

(* C10: a save made after a Template in slides received further add_*      *)
(* calls writes that Template's objects as they are at the save, those     *)
(* appended after it was put in slides included.                           *)
C10_SaveSeesLaterObjects ==
    (call.op = "save_ppttc" /\ raised = NoError) =>
        \A k \in 1..Len(slides) :
            /\ Len(outfile[k].data) = Len(templates[slides[k]].thinkcell_objects)
            /\ \A h \in 1..Len(outfile[k].data) :
                outfile[k].data[h].name = templates[slides[k]].thinkcell_objects[h].name

\* A save of a Template that add_template put in slides while it was empty
\* and that holds an object now.
C10_Witness ==
    /\ call.op = "save_ppttc"
    /\ raised = NoError
    /\ ncalls = 3
    /\ \E k \in 1..Len(slides) :
        /\ len_when_added[slides[k]] = 0
        /\ Len(templates[slides[k]].thinkcell_objects) = 1
        /\ Len(outfile[k].data) = 1

(* C11: over any calls of the add_* methods, serialize, add_template and   *)
(* save_ppttc, a successful add_* call lengthens the list of objects of    *)
(* the Template it is made on by exactly one, every other call leaves the  *)
(* length as it is, and the objects a Template held before a call are the  *)
(* prefix, unchanged, of those it holds after it.                          *)
C11_AppendOnly ==
    [][\A t \in DOMAIN templates :
        LET old == templates[t].thinkcell_objects
            new == templates'[t].thinkcell_objects
            added == IF call'.op \in AddOps /\ raised' = NoError /\ call'.self = t
                        THEN 1 ELSE 0
        IN  /\ Len(new) = Len(old) + added
            /\ SubSeq(new, 1, Len(old)) = old]_vars

\* A second object appended to a Template after a save that wrote it with
\* the first.
C11_Witness ==
    /\ call.op \in AddOps
    /\ raised = NoError
    /\ Len(templates[call.self].thinkcell_objects) = 2
    /\ nwrites = 1
    /\ Len(outfile) = 1
    /\ Len(outfile[1].data) = 1

\* What the method of call c does when it is given the name instead of c's.
OutcomeWithName(c, name) ==
    CASE c.op = "add_textfield" -> textfield_spec(name, c.text)
      [] c.op = "add_table" -> table_spec(name, c.data, c.fill)
      [] c.op = "add_chart" ->
            chart_spec(name, c.categories, c.data, c.fill, c.first_row_blank)
      [] c.op = "add_pie_chart" -> pie_chart_spec(name, c.data, c.fill)
      [] c.op = "add_chart_from_dataframe" ->
            chart_from_dataframe_spec(name, c.dataframe, c.fill, c.first_row_blank)
      [] c.op = "add_scatter_from_dataframe" ->
            scatter_from_dataframe_spec(name, c.dataframe, c.x, c.y, c.label, c.size,
                                        c.group, c.fill)

(* C12: a successful add_* call stores the object under str(name), the     *)
(* object being the one the call builds for the name already coerced, and  *)
(* issues a warning exactly when the name it was given is not a str.       *)
C12_NameCoercedWithWarning ==
    (call.op \in AddOps /\ raised = NoError) =>
        /\ LastObject.name = call.name.val
        /\ LastObject = OutcomeWithName(call, PyStr(call.name.val)).ret
        /\ warned <=> call.name.type # "str"

\* The classes of raw value transform_input accepts.
IsValidValue(v) == v.type \in {"datetime", "str", "int", "float", "bool"}

(* C13: add_pie_chart raises RuntimeError exactly when some data row's     *)
(* length is not 2; when every row has 2 valid elements it succeeds and    *)
(* appends an object whose table is one empty row followed by one row of   *)
(* 2 cells per data row, in input order.                                   *)
C13_PieChart ==
    call.op = "add_pie_chart" =>
        /\ raised.class = "RuntimeError"
                <=> \E i \in 1..Len(call.data) : Len(call.data[i]) # 2
        /\ (\A i \in 1..Len(call.data) :
                /\ Len(call.data[i]) = 2
                /\ \A j \in 1..2 : IsValidValue(call.data[i][j]))
            => /\ raised = NoError
               /\ Len(LastObject.table) = 1 + Len(call.data)
               /\ LastObject.table[1] = <<>>
               /\ \A i \in 1..Min(Len(call.data), Len(LastObject.table) - 1) :
                    /\ Len(LastObject.table[1 + i]) = 2
                    /\ \A j \in 1..2 :
                        CellIs(LastObject.table[1 + i][j], call.data[i][j],
                               ColourOfRow(call.fill, i))

\* The input is no frame, or a frame of at most one column (no categories)
\* or of no rows.
IsMalformedFrame(dataframe) ==
    \/ ~IsDataFrame(dataframe)
    \/ Len(dataframe.columns) <= 1
    \/ Len(dataframe.values) = 0

(* C14: with pandas present, add_chart_from_dataframe and                  *)
(* add_scatter_from_dataframe given an input that is no frame, or a frame  *)
(* with at most one column or with no rows, raise DataFrameError and       *)
(* append nothing.                                                         *)
C14_MalformedFrameRejected ==
    [][(/\ call'.op \in {"add_chart_from_dataframe", "add_scatter_from_dataframe"}
        /\ PANDAS
        /\ IsMalformedFrame(call'.dataframe))
            => (raised'.class = "DataFrameError" /\ templates' = templates)]_vars

\* The value of row i of the frame in the column named by col, the empty
\* string when col is None (the column was left unspecified).
ScatterValue(df, i, col) ==
    IF col = None THEN PyStr("") ELSE df.values[i][Index(df.columns, col.val)]

\* The five columns [label, x, y, size, group] of a scatter call.
ScatterColumns(c) == <<c.label, PyStr(c.x), PyStr(c.y), c.size, c.group>>

\* The frame of those five columns: named "None" and holding "" where the
\* column was left unspecified.
ScatterFrame(c) ==
    DataFrame([j \in 1..5 |-> ScatterColumns(c)[j].val],
              [i \in 1..Len(c.dataframe.values) |->
                  [j \in 1..5 |-> ScatterValue(c.dataframe, i, ScatterColumns(c)[j])]])

(* C15: a successful add_scatter_from_dataframe appends the object that    *)
(* add_chart_from_dataframe with first_row_blank=False builds for the      *)
(* frame of the columns [label, x, y, size, group]: the header is          *)
(* [null, x, y, size or "None", group or "None"], no blank row follows,    *)
(* and each data row has 5 cells, the empty string in every column left    *)
(* unspecified.                                                            *)
C15_ScatterIsChartOfProjection ==
    (call.op = "add_scatter_from_dataframe" /\ raised = NoError) =>
        LET table == LastObject.table
            df == call.dataframe
            cols == ScatterColumns(call)
        IN  /\ LastObject =
                chart_from_dataframe_spec(call.name, ScatterFrame(call), call.fill,
                                          FALSE).ret
            /\ Len(table) = 1 + Len(df.values)
            /\ table[1] = <<None, [string |-> call.x], [string |-> call.y],
                            [string |-> cols[4].val], [string |-> cols[5].val]>>
            /\ \A i \in 1..Len(df.values) :
                /\ Len(table[1 + i]) = 5
                /\ \A j \in 1..5 :
                    CellIs(table[1 + i][j], ScatterValue(df, i, cols[j]),
                           ColourOfRow(call.fill, i))

\* A scatter of a frame of two rows, with a fill, label and group given and
\* size left unspecified.
C15_Witness ==
    /\ call.op = "add_scatter_from_dataframe"
    /\ raised = NoError
    /\ Len(call.dataframe.values) = 2
    /\ call.label # None
    /\ call.size = None
    /\ call.group # None
    /\ call.fill # None
    /\ Len(LastObject.table) = 3
    /\ LastObject.table[2][4] = [string |-> "", fill |-> call.fill.items[1].val]

(* C16: once save_ppttc has succeeded on a Presentation, no later          *)
(* add_template or save_ppttc on it is accepted.                           *)
C16_SaveIsTerminal ==
    [][(nwrites >= 1 /\ call'.op \in {"add_template", "save_ppttc"})
            => raised' # NoError]_vars

(* C16, amended: a successful save_ppttc does not close the Presentation.  *)
(* After it, add_template is accepted exactly when the Template's path is  *)
(* a str ending in ".pptx" and then appends the Template, and save_ppttc   *)
(* is accepted exactly when the filename ends in ".ppttc" and slides is    *)
(* not empty and then writes again: the conditions that hold before any    *)
(* save.                                                                   *)
C16_SaveIsNotTerminal ==
    [][nwrites >= 1 =>
        /\ call'.op = "add_template" =>
            /\ raised' = NoError <=> ValidTemplatePath(templates[call'.template].path)
            /\ raised' = NoError => slides' = Append(slides, call'.template)
        /\ call'.op = "save_ppttc" =>
            /\ raised' = NoError
                    <=> (endswith(call'.filename.val, ".ppttc") /\ slides # <<>>)
            /\ raised' = NoError => nwrites' = nwrites + 1]_vars

\* A second save that succeeded, writing the two slides the Presentation
\* holds.
C16_Witness ==
    /\ call.op = "save_ppttc"
    /\ raised = NoError
    /\ nwrites = 2
    /\ Len(slides) = 2
    /\ Len(outfile) = 2

\* A Cell: exactly one of the tags string, number, date, and at most a fill.
IsCell(element) ==
    /\ element # None
    /\ \E tag \in {"string", "number", "date"} :
            DOMAIN element \in {{tag}, {tag, "fill"}}

\* The methods whose objects begin with the null placeholder.
ChartOps == {"add_chart", "add_chart_from_dataframe", "add_scatter_from_dataframe"}

(* C17: after any add_* call, failed or not, on a Template holding the     *)
(* objects of earlier calls, every element of every row of every stored    *)
(* object is a Cell, but for None, which occurs only as the first element  *)
(* of the first row; the object a call has just stored has None there      *)
(* when add_chart or a dataframe method built it and holds no None at all  *)
(* when another method did, and its name is str(name).                     *)
C17_StoredCellsWellFormed ==
    /\ \A t \in DOMAIN templates :
        \A h \in 1..Len(templates[t].thinkcell_objects) :
            LET table == templates[t].thinkcell_objects[h].table
            IN  \A i \in 1..Len(table) : \A j \in 1..Len(table[i]) :
                    \/ IsCell(table[i][j])
                    \/ (table[i][j] = None /\ i = 1 /\ j = 1)
    /\ (call.op \in AddOps /\ raised = NoError) =>
        /\ LastObject.name = call.name.val
        /\ IF call.op \in ChartOps
            THEN LastObject.table[1][1] = None
            ELSE \A i \in 1..Len(LastObject.table) :
                    \A j \in 1..Len(LastObject.table[i]) :
                        LastObject.table[i][j] # None

\* A chart with two categories, the blank row and two coloured rows, stored
\* after a text field.
C17_Witness ==
    /\ call.op = "add_chart"
    /\ raised = NoError
    /\ Len(templates[1].thinkcell_objects) = 2
    /\ call.first_row_blank
    /\ call.fill # None
    /\ Len(call.data) = 2
    /\ Len(LastObject.table[1]) = 3
    /\ LastObject.table[1][1] = None
    /\ IsCell(LastObject.table[4][3])

(* C18: save_ppttc, accepted or not, leaves slides and every Template's   *)
(* path and objects as they were; it writes exactly when it is accepted;   *)
(* and a filename not ending in ".ppttc" is what it raises for also when   *)
(* slides is empty, the empty slides being raised for only under a good    *)
(* filename.                                                               *)
C18_SaveFrame ==
    [][call'.op = "save_ppttc" =>
        /\ slides' = slides
        /\ templates' = templates
        /\ raised' # NoError => (outfile' = outfile /\ nwrites' = nwrites)
        /\ raised' = NoError => nwrites' = nwrites + 1
        /\ ~endswith(call'.filename.val, ".ppttc")
                => raised' = Exc("ValueError", "save_ppttc.filename")
        /\ (endswith(call'.filename.val, ".ppttc") /\ slides = <<>>)
                => raised' = Exc("ValueError", "save_ppttc.no_slides")]_vars

\* A save under "word.docx" of a Presentation without slides, rejected for
\* the filename, nothing written.
C18_Witness ==
    /\ call.op = "save_ppttc"
    /\ call.filename = PyStr("word.docx")
    /\ slides = <<>>
    /\ raised = Exc("ValueError", "save_ppttc.filename")
    /\ nwrites = 0
    /\ outfile = <<>>

====
